---- MODULE Spec2Model ----
(***************************************************************************)
(* User registration and account activation: the user store, the          *)
(* activation-code store, the three use cases (RegisterUser,               *)
(* IssueActivationCode, ActivateUser) and the Basic-Auth authentication    *)
(* check, as concurrent invocations that interleave at their port calls.   *)
(*                                                                         *)
(* Strings whose characters matter (passwords, activation codes) are       *)
(* sequences of one-character strings; e-mail addresses and messages are   *)
(* atomic strings.  Time is counted in clock ticks.                         *)
(***************************************************************************)
EXTENDS Integers, Sequences, FiniteSets, TLC

\* ------------------------------------------------------------------ bounds
\* The clock counts ticks and runs over 0..MaxTime.
MaxTime == 2
\* Clock ticks in one minute.
TicksPerMinute == 2
\* generate_code() draws from 0..MaxCodeNumber instead of 0..9999.
MaxCodeNumber == 1
\* Number of invocations that may be in flight at once.
NumProcs == 2
\* Number of invocations started in one behaviour.
MaxInvocations == 3

Procs == 1..NumProcs

\* ------------------------------------------------------------- enumerations
UserStatus_PENDING == "pending"
UserStatus_ACTIVE == "active"
ActivationCodeStatus_PENDING == "pending"
ActivationCodeStatus_USED == "used"

ACTIVATION_CODE_LENGTH == 4
DefaultExpiresInMinutes == 1

UserPublicId_PREFIX == "usr"

\* Password policy constants.
MIN_LENGTH == 8
MAX_LENGTH == 128

\* ------------------------------------------------------------------ inputs
Emails == {"a@b.com", "c@d.com"}

ValidPass == <<"V","a","l","i","d","P","a","s","s","1","2","3","!">>
OtherPass == <<"O","t","h","e","r","P","a","s","s","4","5","6","?">>
WeakPass == <<"w","e","a","k">>
EmptyStr == <<>>

RegisterPasswords == {ValidPass, WeakPass}
AuthEmails == Emails \cup {""}
AuthPasswords == {ValidPass, OtherPass, WeakPass, EmptyStr}

\* Plaintexts a caller may build a Password from: each rule violated alone,
\* several at once, and none.
ShortPass == <<"S","h","o","r","t","1","!">>
LongPass == [i \in 1..(MAX_LENGTH + 1) |->
                IF i = 1 THEN "A" ELSE IF i = 2 THEN "1" ELSE IF i = 3 THEN "!" ELSE "a"]
NoUpperPass == <<"n","o","u","p","p","e","r","1","!">>
NoLowerPass == <<"N","O","L","O","W","E","R","1","!">>
NoDigitPass == <<"N","o","D","i","g","i","t","s","!">>
NoSpecialPass == <<"N","o","S","p","e","c","i","a","l","1">>
PasswordInputs == {ValidPass, WeakPass, EmptyStr, ShortPass, LongPass, NoUpperPass,
                   NoLowerPass, NoDigitPass, NoSpecialPass}

\* Code strings and expiries a caller may build an ActivationCode from.
CodeStringInputs == {<<"0","0","0","0">>, <<"A","B","C","D">>, <<"1","2","3">>}
ExpiresAtInputs == {0, MaxTime + 1}

\* ------------------------------------------------------------ Password
UpperChars == {"A","B","C","D","E","F","G","H","I","J","K","L","M",
               "N","O","P","Q","R","S","T","U","V","W","X","Y","Z"}
LowerChars == {"a","b","c","d","e","f","g","h","i","j","k","l","m",
               "n","o","p","q","r","s","t","u","v","w","x","y","z"}
DigitChars == {"0","1","2","3","4","5","6","7","8","9"}
SpecialChars == {"!","@","#","$","%","^","&","*","(",")","_","+","-","=",
                 "[","]","{","}",";","'",":","\"","\\","|",",",".","<",">",
                 "/","?"}

Search(chars, value) == \E i \in 1..Len(value) : value[i] \in chars

\* a variant that stops at the first violated rule
PasswordErrors_FirstOnly(value) ==
    IF Len(value) < MIN_LENGTH THEN <<"Password must be at least 8 characters long">>
    ELSE IF Len(value) > MAX_LENGTH THEN <<"Password must be at most 128 characters long">>
    ELSE IF ~Search(UpperChars, value) THEN <<"Password must contain at least one uppercase letter">>
    ELSE IF ~Search(LowerChars, value) THEN <<"Password must contain at least one lowercase letter">>
    ELSE IF ~Search(DigitChars, value) THEN <<"Password must contain at least one digit">>
    ELSE IF ~Search(SpecialChars, value) THEN <<"Password must contain at least one special character">>
    ELSE <<>>

\* Password.__post_init__: the list of violated rules, every rule evaluated.
PasswordErrors(value) ==
    (IF Len(value) < MIN_LENGTH THEN <<"Password must be at least 8 characters long">> ELSE <<>>)
    \o (IF Len(value) > MAX_LENGTH THEN <<"Password must be at most 128 characters long">> ELSE <<>>)
    \o (IF ~Search(UpperChars, value) THEN <<"Password must contain at least one uppercase letter">> ELSE <<>>)
    \o (IF ~Search(LowerChars, value) THEN <<"Password must contain at least one lowercase letter">> ELSE <<>>)
    \o (IF ~Search(DigitChars, value) THEN <<"Password must contain at least one digit">> ELSE <<>>)
    \o (IF ~Search(SpecialChars, value) THEN <<"Password must contain at least one special character">> ELSE <<>>)

\* Password(value): the frozen value object, or the ExceptionGroup of its errors.
PasswordNew(value) ==
    IF PasswordErrors(value) # <<>>
    THEN [kind |-> "ExceptionGroup", message |-> "Password validation failed",
          errors |-> PasswordErrors(value)]
    ELSE [kind |-> "ok", value |-> [value |-> value]]

\* ------------------------------------------------------------ PasswordHasher
\* bcrypt: an opaque one-way value; verify recomputes and compares.
BcryptHash(password) == [algo |-> "bcrypt", digest_of |-> password]
BcryptVerify(password, password_hash) == password_hash = BcryptHash(password)

\* ------------------------------------------------------------ PasswordHash
\* A text is its literal characters plus the set of hash values it spells out.
\* PasswordHash.__str__: the hash value itself.
PasswordHashStr(password_hash) == [literal |-> "", embeds |-> {password_hash}]
\* PasswordHash.__repr__: a fixed mask.
PasswordHashRepr(password_hash) == [literal |-> "PasswordHash(***)", embeds |-> {}]

\* ------------------------------------------------------------ ActivationCode
Digits == <<"0","1","2","3","4","5","6","7","8","9">>

\* f"{n:04d}"
Format04d(n) ==
    <<Digits[((n \div 1000) % 10) + 1], Digits[((n \div 100) % 10) + 1],
      Digits[((n \div 10) % 10) + 1], Digits[(n % 10) + 1]>>

\* The values random.randint draws from, within the model's bound.
CodeNumbers == 0..MaxCodeNumber
CodeInputs == {Format04d(n) : n \in CodeNumbers}

\* ActivationCode.create(user_id), with the drawn number n, at time t.
ActivationCodeCreate(user_id, n, t) ==
    [user_id |-> user_id, code |-> Format04d(n),
     expires_at |-> t + DefaultExpiresInMinutes * TicksPerMinute,
     status |-> ActivationCodeStatus_PENDING]

\* str.isdigit(): non-empty and every character a digit
IsDigit(code) == Len(code) > 0 /\ \A i \in 1..Len(code) : code[i] \in DigitChars

\* ActivationCode.validate_code_format: a static helper; the class does not
\* declare it as a field validator, so construction never runs it.
ValidateCodeFormat(code) ==
    IF ~IsDigit(code)
    THEN [kind |-> "ValueError", message |-> "Activation code must contain only digits"]
    ELSE IF Len(code) # ACTIVATION_CODE_LENGTH
    THEN [kind |-> "ValueError", message |-> "Activation code must be exactly 4 digits"]
    ELSE [kind |-> "ok", value |-> code]

\* ActivationCode(user_id=, code=, expires_at=, status=): the field constraints
\* are min_length = max_length = ACTIVATION_CODE_LENGTH, nothing else.
ActivationCodeNew(user_id, code, expires_at, status) ==
    IF Len(code) = ACTIVATION_CODE_LENGTH
    THEN [kind |-> "ok",
          value |-> [user_id |-> user_id, code |-> code,
                     expires_at |-> expires_at, status |-> status]]
    ELSE [kind |-> "ValidationError", message |-> "code: string length"]

IsExpired_Strict(ac, t) == t > ac.expires_at
\* expires one tick early
IsExpired_Early(ac, t) == t + 1 >= ac.expires_at
IsExpired(ac, t) == t >= ac.expires_at

\* compares with a value the enum never takes
IsUsed_WrongCase(ac) == ac.status = "USED"
IsUsed(ac) == ac.status = ActivationCodeStatus_USED

MsgUsed == "Activation code has already been used."
MsgExpired == "Activation code has expired. Please request a new activation code."
MsgInvalidDefault == "Activation code is invalid. It may be wrong or expired."

Raise(kind, message) == [kind |-> kind, message |-> message]
Returns(value) == [kind |-> "ok", value |-> value]

IsValid_NoExpiry(ac, t) ==
    IF IsUsed(ac) THEN Raise("ActivationCodeInvalid", MsgUsed) ELSE Returns(TRUE)

IsValid_ExpiryOnly(ac, t) ==
    IF IsExpired(ac, t) THEN Raise("ActivationCodeInvalid", MsgExpired) ELSE Returns(TRUE)

\* expiry evaluated before the used state
IsValid_ExpiryFirst(ac, t) ==
    IF IsExpired(ac, t) THEN Raise("ActivationCodeInvalid", MsgExpired)
    ELSE IF IsUsed(ac) THEN Raise("ActivationCodeInvalid", MsgUsed)
    ELSE Returns(TRUE)

\* ActivationCode.is_valid(): returns True or raises; used before expired.
IsValid(ac, t) ==
    IF IsUsed(ac) THEN Raise("ActivationCodeInvalid", MsgUsed)
    ELSE IF IsExpired(ac, t) THEN Raise("ActivationCodeInvalid", MsgExpired)
    ELSE Returns(TRUE)

\* ------------------------------------------------------------------- state
VARIABLES
    now,        \* the clock, in ticks
    users,      \* users table: sequence of rows, index = internal id
    codes,      \* activation_codes table: function keyed by <<user_id, code>>
    op,         \* op[p]: the operation invocation p runs, or "none"
    pc,         \* pc[p]: the port call invocation p is about to make
    args,       \* args[p]: the invocation's inputs
    local,      \* local[p]: the invocation's local variables
    result,     \* result[p]: what the invocation returned or raised
    calls,      \* calls[p]: the port calls the invocation has made, in order
    consumed,   \* code rows an ActivateUser invocation succeeded with since their last save
    started     \* number of invocations started so far

vars == <<now, users, codes, op, pc, args, local, result, calls, consumed, started>>

NoUser == [id |-> 0, public_id |-> [prefix |-> UserPublicId_PREFIX, uuid_v7 |-> 0],
           email |-> "", password_hash |-> [algo |-> "none", digest_of |-> <<>>],
           status |-> "none"]
NoCode == [user_id |-> 0, code |-> <<>>, expires_at |-> 0, status |-> "none"]
NoArgs == [email |-> "", password |-> <<>>, user_id |-> 0,
           public_id |-> [prefix |-> UserPublicId_PREFIX, uuid_v7 |-> 0], code |-> <<>>,
           status |-> "none", expires_at |-> 0]
NoLocal == [user |-> NoUser, activation_code |-> NoCode, activated_user |-> NoUser,
            checked_at |-> -1, after_success |-> FALSE, repeat_success |-> FALSE]
NoResult == [kind |-> "none"]

UserIds == 1..Len(users)
PublicIdInputs == {[prefix |-> UserPublicId_PREFIX, uuid_v7 |-> k] : k \in 1..Cardinality(Emails)}
UserIdInputs == 1..Cardinality(Emails)

Init ==
    /\ now = 0
    /\ users = <<>>
    /\ codes = <<>>
    /\ op = [p \in Procs |-> "none"]
    /\ pc = [p \in Procs |-> "idle"]
    /\ args = [p \in Procs |-> NoArgs]
    /\ local = [p \in Procs |-> NoLocal]
    /\ result = [p \in Procs |-> NoResult]
    /\ calls = [p \in Procs |-> <<>>]
    /\ consumed = {}
    /\ started = 0

\* ------------------------------------------------------------- user store
\* a users table without the unique index on email
EmailTaken_NoIndex(email) == FALSE

\* PostgresUserRepository.create: INSERT ... status PENDING, unique email.
EmailTaken(email) == \E i \in UserIds : users[i].email = email

NewUserRow_Active(email, password_hash) ==
    [id |-> Len(users) + 1,
     public_id |-> [prefix |-> UserPublicId_PREFIX, uuid_v7 |-> Len(users) + 1],
     email |-> email, password_hash |-> password_hash,
     status |-> UserStatus_ACTIVE]

NewUserRow(email, password_hash) ==
    [id |-> Len(users) + 1,
     public_id |-> [prefix |-> UserPublicId_PREFIX, uuid_v7 |-> Len(users) + 1],
     email |-> email, password_hash |-> password_hash,
     status |-> UserStatus_PENDING]

\* a lookup that answers with an empty row instead of raising
FindById_Lenient(user_id) ==
    Returns(IF user_id \in UserIds THEN users[user_id] ELSE NoUser)

FindById(user_id) ==
    IF user_id \in UserIds THEN Returns(users[user_id])
    ELSE Raise("UserNotFound", "User not found.")

\* a variant that returns an empty user for an unknown public id
FindByPublicId_Lenient(public_id) ==
    Returns(IF \E i \in UserIds : users[i].public_id.uuid_v7 = public_id.uuid_v7
            THEN users[CHOOSE i \in UserIds : users[i].public_id.uuid_v7 = public_id.uuid_v7]
            ELSE NoUser)

FindByPublicId(public_id) ==
    IF \E i \in UserIds : users[i].public_id.uuid_v7 = public_id.uuid_v7
    THEN Returns(users[CHOOSE i \in UserIds : users[i].public_id.uuid_v7 = public_id.uuid_v7])
    ELSE Raise("UserNotFound", "User with public_id not found.")

FindByEmail(email) ==
    IF \E i \in UserIds : users[i].email = email
    THEN Returns(users[CHOOSE i \in UserIds : users[i].email = email])
    ELSE Raise("UserNotFound", "User with email not found.")

\* UPDATE users SET status = $1 WHERE id = $2
SetStatusRows(user_id, status) ==
    [i \in UserIds |-> IF i = user_id THEN [users[i] EXCEPT !.status = status] ELSE users[i]]

\* an UPDATE that skips rows already in the requested status
SetStatus_RejectsNoChange(user_id, status) ==
    IF user_id \in UserIds /\ users[user_id].status # status
    THEN Returns(SetStatusRows(user_id, status)[user_id])
    ELSE Raise("UserNotFound", "User not found.")

\* PostgresUserRepository.set_status: the updated row, or UserNotFoundError
SetStatus(user_id, status) ==
    IF user_id \in UserIds
    THEN Returns(SetStatusRows(user_id, status)[user_id])
    ELSE Raise("UserNotFound", "User not found.")

\* --------------------------------------------------- activation-code store
CodeKey(ac) == <<ac.user_id, ac.code>>
CodeRow(ac) == [expires_at |-> ac.expires_at, status |-> ac.status]

\* a save that also retires the owner's other pending rows
SaveRows_RetiresPrior(ac) ==
    [k \in DOMAIN codes \cup {CodeKey(ac)} |->
        IF k = CodeKey(ac) THEN CodeRow(ac)
        ELSE IF k[1] = ac.user_id
        THEN [codes[k] EXCEPT !.status = ActivationCodeStatus_USED]
        ELSE codes[k]]

\* a save that leaves an existing row as it is (ON CONFLICT DO NOTHING)
SaveRows_KeepsExisting(ac) ==
    [k \in DOMAIN codes \cup {CodeKey(ac)} |->
        IF k \in DOMAIN codes THEN codes[k] ELSE CodeRow(ac)]

\* INSERT ... ON CONFLICT (user_id, code) DO UPDATE SET expires_at, status
SaveRows(ac) ==
    [k \in DOMAIN codes \cup {CodeKey(ac)} |->
        IF k = CodeKey(ac) THEN CodeRow(ac) ELSE codes[k]]

\* WHERE code = $2 only
FindByUserIdAndCode_AnyUser(user_id, code) ==
    IF \E k \in DOMAIN codes : k[2] = code
    THEN LET k == CHOOSE k \in DOMAIN codes : k[2] = code IN
         Returns([user_id |-> k[1], code |-> code,
                  expires_at |-> codes[k].expires_at, status |-> codes[k].status])
    ELSE Raise("ActivationCodeNotFound", "Activation code not found for user_id and code.")

\* WHERE user_id = $1 only
FindByUserIdAndCode_AnyCode(user_id, code) ==
    IF \E k \in DOMAIN codes : k[1] = user_id
    THEN LET k == CHOOSE k \in DOMAIN codes : k[1] = user_id IN
         Returns([user_id |-> user_id, code |-> k[2],
                  expires_at |-> codes[k].expires_at, status |-> codes[k].status])
    ELSE Raise("ActivationCodeNotFound", "Activation code not found for user_id and code.")

FindByUserIdAndCode(user_id, code) ==
    IF <<user_id, code>> \in DOMAIN codes
    THEN Returns([user_id |-> user_id, code |-> code,
                  expires_at |-> codes[<<user_id, code>>].expires_at,
                  status |-> codes[<<user_id, code>>].status])
    ELSE Raise("ActivationCodeNotFound", "Activation code not found for user_id and code.")

\* WHERE user_id = $1 AND status = 'used'
MarkAsUsedRows_WrongStatus(user_id) ==
    [k \in DOMAIN codes |->
        IF k[1] = user_id /\ codes[k].status = ActivationCodeStatus_USED
        THEN [codes[k] EXCEPT !.status = ActivationCodeStatus_USED]
        ELSE codes[k]]

\* WHERE status = 'pending' only
MarkAsUsedRows_AllUsers(user_id) ==
    [k \in DOMAIN codes |->
        IF codes[k].status = ActivationCodeStatus_PENDING
        THEN [codes[k] EXCEPT !.status = ActivationCodeStatus_USED]
        ELSE codes[k]]

\* a variant that retires only the user's most recent pending code
MarkAsUsedRows_LatestOnly(user_id) ==
    [k \in DOMAIN codes |->
        IF /\ k[1] = user_id /\ codes[k].status = ActivationCodeStatus_PENDING
           /\ \A j \in DOMAIN codes :
                j[1] = user_id /\ codes[j].status = ActivationCodeStatus_PENDING
                => codes[j].expires_at <= codes[k].expires_at
        THEN [codes[k] EXCEPT !.status = ActivationCodeStatus_USED]
        ELSE codes[k]]

\* UPDATE activation_codes SET status = 'used' WHERE user_id = $1 AND status = 'pending'
MarkAsUsedRows(user_id) ==
    [k \in DOMAIN codes |->
        IF k[1] = user_id /\ codes[k].status = ActivationCodeStatus_PENDING
        THEN [codes[k] EXCEPT !.status = ActivationCodeStatus_USED]
        ELSE codes[k]]

\* ------------------------------------------------------- invocation helpers
Call(p, c) == calls' = [calls EXCEPT ![p] = Append(@, c)]
Finish(p, r) == /\ pc' = [pc EXCEPT ![p] = "done"]
                /\ result' = [result EXCEPT ![p] = r]
Goto(p, label) == /\ pc' = [pc EXCEPT ![p] = label]
                  /\ UNCHANGED result
\* A new invocation takes the lowest free slot.
Begin(p, name, a) == /\ pc[p] = "idle"
                     /\ \A q \in Procs : q < p => pc[q] # "idle"
                     /\ started < MaxInvocations
                     /\ started' = started + 1
                     /\ op' = [op EXCEPT ![p] = name]
                     /\ args' = [args EXCEPT ![p] = a]

\* ------------------------------------------------------------ RegisterUser
\* a variant that hashes and creates before validating the password
RegisterCreate_CreateFirst(p, email, password) ==
    /\ Begin(p, "register", [NoArgs EXCEPT !.email = email, !.password = password])
    /\ IF EmailTaken(email)
       THEN /\ Finish(p, Raise("UserAlreadyExists", "User with email already exists."))
            /\ calls' = [calls EXCEPT ![p] = <<<<"hash">>, <<"create", email>>>>]
            /\ UNCHANGED <<users, local>>
       ELSE /\ users' = Append(users, NewUserRow(email, BcryptHash(password)))
            /\ calls' = [calls EXCEPT ![p] = <<<<"hash">>, <<"create", email>>>>]
            /\ IF PasswordErrors(password) # <<>>
               THEN /\ Finish(p, [kind |-> "PasswordPolicyViolation",
                                  errors |-> PasswordErrors(password)])
                    /\ UNCHANGED local
               ELSE /\ local' = [local EXCEPT ![p].user = NewUserRow(email, BcryptHash(password))]
                    /\ Goto(p, "save_code")
    /\ UNCHANGED <<now, codes, consumed>>

\* a variant whose store overwrites the row of a registered email
RegisterCreate_Overwrite(p, email, password) ==
    /\ Begin(p, "register", [NoArgs EXCEPT !.email = email, !.password = password])
    /\ IF PasswordErrors(password) # <<>>
       THEN /\ Finish(p, [kind |-> "PasswordPolicyViolation", errors |-> PasswordErrors(password)])
            /\ UNCHANGED <<users, local, calls>>
       ELSE IF EmailTaken(email)
       THEN /\ users' = [i \in UserIds |->
                            IF users[i].email = email
                            THEN [users[i] EXCEPT !.status = UserStatus_PENDING]
                            ELSE users[i]]
            /\ local' = [local EXCEPT ![p].user =
                            [FindByEmail(email).value EXCEPT !.status = UserStatus_PENDING]]
            /\ calls' = [calls EXCEPT ![p] = <<<<"hash">>, <<"create", email>>>>]
            /\ Goto(p, "save_code")
       ELSE /\ users' = Append(users, NewUserRow(email, BcryptHash(password)))
            /\ local' = [local EXCEPT ![p].user = NewUserRow(email, BcryptHash(password))]
            /\ calls' = [calls EXCEPT ![p] = <<<<"hash">>, <<"create", email>>>>]
            /\ Goto(p, "save_code")
    /\ UNCHANGED <<now, codes, consumed>>

\* Password(password); hasher.hash; await user_repository.create(email, hash)
RegisterCreate(p, email, password) ==
    /\ Begin(p, "register", [NoArgs EXCEPT !.email = email, !.password = password])
    /\ IF PasswordErrors(password) # <<>>
       THEN /\ Finish(p, [kind |-> "PasswordPolicyViolation", errors |-> PasswordErrors(password)])
            /\ UNCHANGED <<users, local, calls>>
       ELSE IF EmailTaken(email)
       THEN /\ Finish(p, Raise("UserAlreadyExists", "User with email already exists."))
            /\ calls' = [calls EXCEPT ![p] = <<<<"hash">>, <<"create", email>>>>]
            /\ UNCHANGED <<users, local>>
       ELSE /\ users' = Append(users, NewUserRow(email, BcryptHash(password)))
            /\ local' = [local EXCEPT ![p].user = NewUserRow(email, BcryptHash(password))]
            /\ calls' = [calls EXCEPT ![p] = <<<<"hash">>, <<"create", email>>>>]
            /\ Goto(p, "save_code")
    /\ UNCHANGED <<now, codes, consumed>>

\* ActivationCode.create(user_id=user.id); await activation_code_repository.save
RegisterSaveCode(p, n) ==
    /\ op[p] = "register" /\ pc[p] = "save_code"
    /\ LET ac == ActivationCodeCreate(local[p].user.id, n, now) IN
        /\ codes' = SaveRows(ac)
        /\ consumed' = consumed \ {CodeKey(ac)}
        /\ local' = [local EXCEPT ![p].activation_code = ac]
        /\ Call(p, <<"save", ac.user_id, ac.code>>)
    /\ Goto(p, "send_email")
    /\ UNCHANGED <<now, users, op, args, started>>

\* await email_service.send_activation_code(email, activation_code.code); return user
RegisterSendEmail(p) ==
    /\ op[p] = "register" /\ pc[p] = "send_email"
    /\ Call(p, <<"send_activation_code", args[p].email, local[p].activation_code.code>>)
    /\ Finish(p, Returns(local[p].user))
    /\ UNCHANGED <<now, users, codes, op, args, local, consumed, started>>

\* ----------------------------------------------------- IssueActivationCode
\* user = await user_repository.find_by_id(user_id)
IssueFindUser(p, user_id) ==
    /\ Begin(p, "issue", [NoArgs EXCEPT !.user_id = user_id])
    /\ Call(p, <<"find_by_id", user_id>>)
    /\ IF FindById(user_id).kind = "ok"
       THEN /\ local' = [local EXCEPT ![p].user = FindById(user_id).value]
            /\ Goto(p, "save_code")
       ELSE /\ Finish(p, FindById(user_id))
            /\ UNCHANGED local
    /\ UNCHANGED <<now, users, codes, consumed>>

\* a variant that saves the new code as USED
IssueSaveCode_SavesUsed(p, n) ==
    /\ op[p] = "issue" /\ pc[p] = "save_code"
    /\ LET ac == [ActivationCodeCreate(local[p].user.id, n, now)
                    EXCEPT !.status = ActivationCodeStatus_USED] IN
        /\ codes' = SaveRows(ac)
        /\ consumed' = consumed \ {CodeKey(ac)}
        /\ local' = [local EXCEPT ![p].activation_code = ac]
        /\ Call(p, <<"save", ac.user_id, ac.code>>)
    /\ Goto(p, "send_email")
    /\ UNCHANGED <<now, users, op, args, started>>

\* ActivationCode.create(user_id=user.id); await activation_code_repository.save
IssueSaveCode(p, n) ==
    /\ op[p] = "issue" /\ pc[p] = "save_code"
    /\ LET ac == ActivationCodeCreate(local[p].user.id, n, now) IN
        /\ codes' = SaveRows(ac)
        /\ consumed' = consumed \ {CodeKey(ac)}
        /\ local' = [local EXCEPT ![p].activation_code = ac]
        /\ Call(p, <<"save", ac.user_id, ac.code>>)
    /\ Goto(p, "send_email")
    /\ UNCHANGED <<now, users, op, args, started>>

\* a variant that retries the send in a loop that never succeeds
IssueSendEmail_RetriesForever(p) ==
    /\ op[p] = "issue" /\ pc[p] = "send_email"
    /\ UNCHANGED vars

\* await email_service.send_activation_code(user.email, activation_code.code); return user
IssueSendEmail(p) ==
    /\ op[p] = "issue" /\ pc[p] = "send_email"
    /\ Call(p, <<"send_activation_code", local[p].user.email, local[p].activation_code.code>>)
    /\ Finish(p, Returns(local[p].user))
    /\ UNCHANGED <<now, users, codes, op, args, local, consumed, started>>

\* ------------------------------------------------------------ ActivateUser
\* user = await user_repository.find_by_public_id(public_id)
ActivateFindUser(p, public_id, code) ==
    /\ Begin(p, "activate", [NoArgs EXCEPT !.public_id = public_id, !.code = code])
    /\ Call(p, <<"find_by_public_id", public_id.uuid_v7>>)
    /\ IF FindByPublicId(public_id).kind = "ok"
       THEN /\ local' = [local EXCEPT ![p].user = FindByPublicId(public_id).value]
            /\ Goto(p, "find_code")
       ELSE /\ Finish(p, FindByPublicId(public_id))
            /\ UNCHANGED local
    /\ UNCHANGED <<now, users, codes, consumed>>

\* activation_code = await activation_code_repository.find_by_user_id_and_code(user.id, code)
ActivateFindCode(p) ==
    /\ op[p] = "activate" /\ pc[p] = "find_code"
    /\ Call(p, <<"find_by_user_id_and_code", local[p].user.id, args[p].code>>)
    /\ LET found == FindByUserIdAndCode(local[p].user.id, args[p].code) IN
        IF found.kind = "ok"
        THEN /\ local' = [local EXCEPT
                            ![p].activation_code = found.value,
                            ![p].after_success =
                                <<local[p].user.id, args[p].code>> \in consumed]
             /\ Goto(p, "is_valid")
        ELSE /\ Finish(p, found)
             /\ UNCHANGED local
    /\ UNCHANGED <<now, users, codes, op, args, consumed, started>>

\* a variant that refuses a user who is already ACTIVE
ActivateIsValid_StatusGuard(p) ==
    /\ op[p] = "activate" /\ pc[p] = "is_valid"
    /\ local' = [local EXCEPT ![p].checked_at = now]
    /\ LET valid == IsValid(local[p].activation_code, now) IN
        IF local[p].user.status = UserStatus_ACTIVE
        THEN Finish(p, Raise("ActivationCodeInvalid", MsgInvalidDefault))
        ELSE IF valid.kind # "ok" THEN Finish(p, valid)
        ELSE IF valid.value = FALSE
        THEN Finish(p, Raise("ActivationCodeInvalid", MsgInvalidDefault))
        ELSE Goto(p, "set_status")
    /\ UNCHANGED <<now, users, codes, op, args, calls, consumed, started>>

\* a variant that catches the entity's error and raises its own
ActivateIsValid_Rewraps(p) ==
    /\ op[p] = "activate" /\ pc[p] = "is_valid"
    /\ local' = [local EXCEPT ![p].checked_at = now]
    /\ LET valid == IsValid(local[p].activation_code, now) IN
        IF valid.kind # "ok" \/ valid.value = FALSE
        THEN Finish(p, Raise("ActivationCodeInvalid", MsgInvalidDefault))
        ELSE Goto(p, "set_status")
    /\ UNCHANGED <<now, users, codes, op, args, calls, consumed, started>>

\* a variant that retires the user's codes before the user is activated
ActivateIsValid_MarksFirst(p) ==
    /\ op[p] = "activate" /\ pc[p] = "is_valid"
    /\ local' = [local EXCEPT ![p].checked_at = now]
    /\ LET valid == IsValid(local[p].activation_code, now) IN
        IF valid.kind # "ok" THEN Finish(p, valid) /\ UNCHANGED codes
        ELSE IF valid.value = FALSE
        THEN Finish(p, Raise("ActivationCodeInvalid", MsgInvalidDefault)) /\ UNCHANGED codes
        ELSE Goto(p, "set_status") /\ codes' = MarkAsUsedRows(local[p].user.id)
    /\ UNCHANGED <<now, users, op, args, calls, consumed, started>>

\* if not activation_code.is_valid(): raise ActivationCodeInvalidError()
ActivateIsValid(p) ==
    /\ op[p] = "activate" /\ pc[p] = "is_valid"
    /\ local' = [local EXCEPT ![p].checked_at = now]
    /\ LET valid == IsValid(local[p].activation_code, now) IN
        IF valid.kind # "ok" THEN Finish(p, valid)
        ELSE IF valid.value = FALSE
        THEN Finish(p, Raise("ActivationCodeInvalid", MsgInvalidDefault))
        ELSE Goto(p, "set_status")
    /\ UNCHANGED <<now, users, codes, op, args, calls, consumed, started>>

\* a variant whose UPDATE only matches a user that is still PENDING
ActivateSetStatus_FromPendingOnly(p) ==
    /\ op[p] = "activate" /\ pc[p] = "set_status"
    /\ Call(p, <<"set_status", local[p].user.id, UserStatus_ACTIVE>>)
    /\ IF /\ local[p].user.id \in UserIds
          /\ users[local[p].user.id].status = UserStatus_PENDING
       THEN /\ users' = SetStatusRows(local[p].user.id, UserStatus_ACTIVE)
            /\ local' = [local EXCEPT ![p].activated_user =
                            SetStatusRows(local[p].user.id, UserStatus_ACTIVE)[local[p].user.id]]
            /\ Goto(p, "mark_as_used")
       ELSE /\ Finish(p, Raise("UserNotFound", "User not found."))
            /\ UNCHANGED <<users, local>>
    /\ UNCHANGED <<now, codes, op, args, consumed, started>>

\* activated_user = await user_repository.set_status(user.id, UserStatus.ACTIVE)
ActivateSetStatus(p) ==
    /\ op[p] = "activate" /\ pc[p] = "set_status"
    /\ Call(p, <<"set_status", local[p].user.id, UserStatus_ACTIVE>>)
    /\ IF local[p].user.id \in UserIds
       THEN /\ users' = SetStatusRows(local[p].user.id, UserStatus_ACTIVE)
            /\ local' = [local EXCEPT ![p].activated_user =
                            SetStatusRows(local[p].user.id, UserStatus_ACTIVE)[local[p].user.id]]
            /\ Goto(p, "mark_as_used")
       ELSE /\ Finish(p, Raise("UserNotFound", "User not found."))
            /\ UNCHANGED <<users, local>>
    /\ UNCHANGED <<now, codes, op, args, consumed, started>>

\* await activation_code_repository.mark_as_used(user.id); return activated_user
ActivateMarkAsUsed(p) ==
    /\ op[p] = "activate" /\ pc[p] = "mark_as_used"
    /\ Call(p, <<"mark_as_used", local[p].user.id>>)
    /\ codes' = MarkAsUsedRows(local[p].user.id)
    /\ consumed' = consumed \cup {<<local[p].user.id, args[p].code>>}
    /\ local' = [local EXCEPT ![p].repeat_success =
                    <<local[p].user.id, args[p].code>> \in consumed]
    /\ Finish(p, Returns(local[p].activated_user))
    /\ UNCHANGED <<now, users, op, args, started>>

\* ----------------------------------- get_authenticated_user_from_basic_auth
Unauthorized(detail) ==
    [kind |-> "HTTPException", status_code |-> 401, detail |-> detail,
     headers |-> <<"WWW-Authenticate", "Basic">>]

\* a variant whose unknown-email failure names the cause
AuthFindUser_NamesUnknownEmail(p, email, password) ==
    /\ Begin(p, "authenticate", [NoArgs EXCEPT !.email = email, !.password = password])
    /\ IF email = "" \/ password = EmptyStr
       THEN /\ Finish(p, Unauthorized("Missing email or password"))
            /\ UNCHANGED <<local, calls>>
       ELSE /\ Call(p, <<"find_by_email", email>>)
            /\ IF FindByEmail(email).kind = "ok"
               THEN /\ local' = [local EXCEPT ![p].user = FindByEmail(email).value]
                    /\ Goto(p, "verify")
               ELSE /\ Finish(p, Unauthorized(FindByEmail(email).message))
                    /\ UNCHANGED local
    /\ UNCHANGED <<now, users, codes, consumed>>

\* if not email or not password: raise 401; user = await find_by_email(email)
AuthFindUser(p, email, password) ==
    /\ Begin(p, "authenticate", [NoArgs EXCEPT !.email = email, !.password = password])
    /\ IF email = "" \/ password = EmptyStr
       THEN /\ Finish(p, Unauthorized("Missing email or password"))
            /\ UNCHANGED <<local, calls>>
       ELSE /\ Call(p, <<"find_by_email", email>>)
            /\ IF FindByEmail(email).kind = "ok"
               THEN /\ local' = [local EXCEPT ![p].user = FindByEmail(email).value]
                    /\ Goto(p, "verify")
               ELSE /\ Finish(p, Unauthorized("Invalid email or password"))
                    /\ UNCHANGED local
    /\ UNCHANGED <<now, users, codes, consumed>>

\* a variant that calls the hasher before validating the plaintext
AuthVerify_HashFirst(p) ==
    /\ op[p] = "authenticate" /\ pc[p] = "verify"
    /\ Call(p, <<"verify">>)
    /\ IF PasswordErrors(args[p].password) # <<>>
       THEN Finish(p, Unauthorized("Invalid email or password"))
       ELSE IF BcryptVerify(args[p].password, local[p].user.password_hash)
       THEN Finish(p, Returns(local[p].user))
       ELSE Finish(p, Unauthorized("Invalid email or password"))
    /\ UNCHANGED <<now, users, codes, op, args, local, consumed, started>>

\* a variant that admits ACTIVE users only
AuthVerify_ActiveOnly(p) ==
    /\ op[p] = "authenticate" /\ pc[p] = "verify"
    /\ IF PasswordErrors(args[p].password) # <<>>
       THEN /\ Finish(p, Unauthorized("Invalid email or password"))
            /\ UNCHANGED calls
       ELSE /\ Call(p, <<"verify">>)
            /\ IF /\ BcryptVerify(args[p].password, local[p].user.password_hash)
                  /\ local[p].user.status = UserStatus_PENDING
               THEN Finish(p, Returns(local[p].user))
               ELSE Finish(p, Unauthorized("Invalid email or password"))
    /\ UNCHANGED <<now, users, codes, op, args, local, consumed, started>>

\* password_vo = Password(password); is_valid = password_hasher.verify(...)
AuthVerify(p) ==
    /\ op[p] = "authenticate" /\ pc[p] = "verify"
    /\ IF PasswordErrors(args[p].password) # <<>>
       THEN /\ Finish(p, Unauthorized("Invalid email or password"))
            /\ UNCHANGED calls
       ELSE /\ Call(p, <<"verify">>)
            /\ IF BcryptVerify(args[p].password, local[p].user.password_hash)
               THEN Finish(p, Returns(local[p].user))
               ELSE Finish(p, Unauthorized("Invalid email or password"))
    /\ UNCHANGED <<now, users, codes, op, args, local, consumed, started>>

\* ------------------------------------------------------------ port failures
\* A port call may raise (mail transport or database error).  No use case
\* catches anything: the exception ends the invocation and reaches the caller.
\* Statements run on a pooled connection without a transaction, so what was
\* written before the failure stays written.

\* a variant that deletes the saved code when the notifier fails
RegisterSendEmailFails_Compensates(p) ==
    /\ op[p] = "register" /\ pc[p] = "send_email"
    /\ Call(p, <<"send_activation_code", args[p].email, local[p].activation_code.code>>)
    /\ codes' = [k \in DOMAIN codes \ {CodeKey(local[p].activation_code)} |-> codes[k]]
    /\ Finish(p, Raise("PortFailure", "send_activation_code"))
    /\ UNCHANGED <<now, users, op, args, local, consumed, started>>

\* await email_service.send_activation_code(...) raises
RegisterSendEmailFails(p) ==
    /\ op[p] = "register" /\ pc[p] = "send_email"
    /\ Call(p, <<"send_activation_code", args[p].email, local[p].activation_code.code>>)
    /\ Finish(p, Raise("PortFailure", "send_activation_code"))
    /\ UNCHANGED <<now, users, codes, op, args, local, consumed, started>>

\* await email_service.send_activation_code(...) raises
IssueSendEmailFails(p) ==
    /\ op[p] = "issue" /\ pc[p] = "send_email"
    /\ Call(p, <<"send_activation_code", local[p].user.email, local[p].activation_code.code>>)
    /\ Finish(p, Raise("PortFailure", "send_activation_code"))
    /\ UNCHANGED <<now, users, codes, op, args, local, consumed, started>>

\* a variant that swallows the failure and goes on
ActivateSetStatusFails_Continues(p) ==
    /\ op[p] = "activate" /\ pc[p] = "set_status"
    /\ Call(p, <<"set_status", local[p].user.id, UserStatus_ACTIVE>>)
    /\ Goto(p, "mark_as_used")
    /\ UNCHANGED <<now, users, codes, op, args, local, consumed, started>>

\* await user_repository.set_status(...) raises
ActivateSetStatusFails(p) ==
    /\ op[p] = "activate" /\ pc[p] = "set_status"
    /\ Call(p, <<"set_status", local[p].user.id, UserStatus_ACTIVE>>)
    /\ Finish(p, Raise("PortFailure", "set_status"))
    /\ UNCHANGED <<now, users, codes, op, args, local, consumed, started>>

\* a variant that puts the user back to PENDING when mark_as_used fails
ActivateMarkAsUsedFails_UndoesStatus(p) ==
    /\ op[p] = "activate" /\ pc[p] = "mark_as_used"
    /\ Call(p, <<"mark_as_used", local[p].user.id>>)
    /\ users' = SetStatusRows(local[p].user.id, UserStatus_PENDING)
    /\ Finish(p, Raise("PortFailure", "mark_as_used"))
    /\ UNCHANGED <<now, codes, op, args, local, consumed, started>>

\* await activation_code_repository.mark_as_used(...) raises
ActivateMarkAsUsedFails(p) ==
    /\ op[p] = "activate" /\ pc[p] = "mark_as_used"
    /\ Call(p, <<"mark_as_used", local[p].user.id>>)
    /\ Finish(p, Raise("PortFailure", "mark_as_used"))
    /\ UNCHANGED <<now, users, codes, op, args, local, consumed, started>>

\* ---------------------------------------------------- direct store calls
\* await user_repository.set_status(user_id, status), called on its own
RepoSetStatus(p, user_id, status) ==
    /\ Begin(p, "set_status", [NoArgs EXCEPT !.user_id = user_id, !.status = status])
    /\ Call(p, <<"set_status", user_id, status>>)
    /\ users' = IF SetStatus(user_id, status).kind = "ok"
                THEN SetStatusRows(user_id, status) ELSE users
    /\ Finish(p, SetStatus(user_id, status))
    /\ UNCHANGED <<now, codes, local, consumed>>

\* ActivationCode(...) built by the caller, then
\* await activation_code_repository.save(activation_code), called on its own
RepoSave(p, user_id, code, expires_at, status) ==
    /\ Begin(p, "save", [NoArgs EXCEPT !.user_id = user_id, !.code = code,
                                       !.expires_at = expires_at, !.status = status])
    /\ LET made == ActivationCodeNew(user_id, code, expires_at, status) IN
        IF made.kind # "ok"
        THEN /\ Finish(p, made)
             /\ UNCHANGED <<codes, consumed, calls, local>>
        ELSE IF user_id \notin UserIds
        THEN /\ Call(p, <<"save", user_id, code>>)
             /\ Finish(p, Raise("ForeignKeyViolation", "activation_codes.user_id"))
             /\ UNCHANGED <<codes, consumed, local>>
        ELSE /\ Call(p, <<"save", user_id, code>>)
             /\ codes' = SaveRows(made.value)
             /\ consumed' = consumed \ {CodeKey(made.value)}
             /\ local' = [local EXCEPT ![p].activation_code = made.value]
             /\ Finish(p, [kind |-> "ok", value |-> "None"])
    /\ UNCHANGED <<now, users>>

\* ------------------------------------------- value objects, used directly
\* Password(value), constructed on its own
PasswordConstruct(p, value) ==
    /\ Begin(p, "password", [NoArgs EXCEPT !.password = value])
    /\ Finish(p, PasswordNew(value))
    /\ UNCHANGED <<now, users, codes, local, calls, consumed>>

\* str(user.password_hash) of a stored user
StrPasswordHash(p, user_id) ==
    /\ user_id \in UserIds
    /\ Begin(p, "str", [NoArgs EXCEPT !.user_id = user_id])
    /\ Finish(p, Returns(PasswordHashStr(users[user_id].password_hash)))
    /\ UNCHANGED <<now, users, codes, local, calls, consumed>>

\* repr(user.password_hash) of a stored user
ReprPasswordHash(p, user_id) ==
    /\ user_id \in UserIds
    /\ Begin(p, "repr", [NoArgs EXCEPT !.user_id = user_id])
    /\ Finish(p, Returns(PasswordHashRepr(users[user_id].password_hash)))
    /\ UNCHANGED <<now, users, codes, local, calls, consumed>>

\* ------------------------------------------- POST /users (register_user)
\* The handler awaits RegisterUser.execute(email, password) and then
\* IssueActivationCode.execute(user_id=user.id), within one request.
PublicUserResponse(user) ==
    [public_id |-> <<user.public_id.prefix, user.public_id.uuid_v7>>,
     email |-> user.email, status |-> user.status]

\* user = await register_use_case.execute(...): Password, hash, create
HttpRegisterCreate(p, email, password) ==
    /\ Begin(p, "http_register", [NoArgs EXCEPT !.email = email, !.password = password])
    /\ IF PasswordErrors(password) # <<>>
       THEN /\ Finish(p, [kind |-> "PasswordPolicyViolation", errors |-> PasswordErrors(password)])
            /\ UNCHANGED <<users, local, calls>>
       ELSE IF EmailTaken(email)
       THEN /\ Finish(p, Raise("UserAlreadyExists", "User with email already exists."))
            /\ calls' = [calls EXCEPT ![p] = <<<<"hash">>, <<"create", email>>>>]
            /\ UNCHANGED <<users, local>>
       ELSE /\ users' = Append(users, NewUserRow(email, BcryptHash(password)))
            /\ local' = [local EXCEPT ![p].user = NewUserRow(email, BcryptHash(password))]
            /\ calls' = [calls EXCEPT ![p] = <<<<"hash">>, <<"create", email>>>>]
            /\ Goto(p, "save_code")
    /\ UNCHANGED <<now, codes, consumed>>

\* ... register_use_case.execute: ActivationCode.create; save
HttpRegisterSaveCode(p, n) ==
    /\ op[p] = "http_register" /\ pc[p] = "save_code"
    /\ LET ac == ActivationCodeCreate(local[p].user.id, n, now) IN
        /\ codes' = SaveRows(ac)
        /\ consumed' = consumed \ {CodeKey(ac)}
        /\ local' = [local EXCEPT ![p].activation_code = ac]
        /\ Call(p, <<"save", ac.user_id, ac.code>>)
    /\ Goto(p, "send_email")
    /\ UNCHANGED <<now, users, op, args, started>>

\* ... register_use_case.execute: send_activation_code; return user
HttpRegisterSendEmail(p) ==
    /\ op[p] = "http_register" /\ pc[p] = "send_email"
    /\ Call(p, <<"send_activation_code", args[p].email, local[p].activation_code.code>>)
    /\ Goto(p, "issue_find_user")
    /\ UNCHANGED <<now, users, codes, op, args, local, consumed, started>>

\* await issue_code_use_case.execute(user_id=user.id): find_by_id
HttpIssueFindUser(p) ==
    /\ op[p] = "http_register" /\ pc[p] = "issue_find_user"
    /\ Call(p, <<"find_by_id", local[p].user.id>>)
    /\ IF FindById(local[p].user.id).kind = "ok"
       THEN /\ local' = [local EXCEPT ![p].activated_user = FindById(local[p].user.id).value]
            /\ Goto(p, "issue_save_code")
       ELSE /\ Finish(p, FindById(local[p].user.id))
            /\ UNCHANGED local
    /\ UNCHANGED <<now, users, codes, op, args, consumed, started>>

\* ... issue_code_use_case.execute: ActivationCode.create; save
HttpIssueSaveCode(p, n) ==
    /\ op[p] = "http_register" /\ pc[p] = "issue_save_code"
    /\ LET ac == ActivationCodeCreate(local[p].activated_user.id, n, now) IN
        /\ codes' = SaveRows(ac)
        /\ consumed' = consumed \ {CodeKey(ac)}
        /\ local' = [local EXCEPT ![p].activation_code = ac]
        /\ Call(p, <<"save", ac.user_id, ac.code>>)
    /\ Goto(p, "issue_send_email")
    /\ UNCHANGED <<now, users, op, args, started>>

\* ... issue_code_use_case.execute: send_activation_code; return PublicUserResponse
HttpIssueSendEmail(p) ==
    /\ op[p] = "http_register" /\ pc[p] = "issue_send_email"
    /\ Call(p, <<"send_activation_code", local[p].activated_user.email,
                 local[p].activation_code.code>>)
    /\ Finish(p, Returns(PublicUserResponse(local[p].user)))
    /\ UNCHANGED <<now, users, codes, op, args, local, consumed, started>>

\* ------------------- POST /users/activate and POST /users/resend-code
HttpAuthRoutes == {"http_activate", "http_resend"}

\* Depends(get_authenticated_user_from_basic_auth): empty check, find_by_email
HttpAuthFindUser(p, route, email, password, code) ==
    /\ route \in HttpAuthRoutes
    /\ (route = "http_resend") <=> (code = <<>>)
    /\ Begin(p, route, [NoArgs EXCEPT !.email = email, !.password = password,
                                      !.code = code])
    /\ IF email = "" \/ password = EmptyStr
       THEN /\ Finish(p, Unauthorized("Missing email or password"))
            /\ UNCHANGED <<local, calls>>
       ELSE /\ Call(p, <<"find_by_email", email>>)
            /\ IF FindByEmail(email).kind = "ok"
               THEN /\ local' = [local EXCEPT ![p].user = FindByEmail(email).value]
                    /\ Goto(p, "verify")
               ELSE /\ Finish(p, Unauthorized("Invalid email or password"))
                    /\ UNCHANGED local
    /\ UNCHANGED <<now, users, codes, consumed>>

\* a variant that accepts any well-formed password
HttpAuthVerify_SkipsHashCheck(p) ==
    /\ op[p] \in HttpAuthRoutes /\ pc[p] = "verify"
    /\ IF PasswordErrors(args[p].password) # <<>>
       THEN /\ Finish(p, Unauthorized("Invalid email or password"))
            /\ UNCHANGED calls
       ELSE /\ Call(p, <<"verify">>)
            /\ IF op[p] = "http_activate" THEN Goto(p, "execute")
               ELSE Goto(p, "issue_find_user")
    /\ UNCHANGED <<now, users, codes, op, args, local, consumed, started>>

\* ... Password(password); password_hasher.verify; return user: the endpoint
\* body runs next
HttpAuthVerify(p) ==
    /\ op[p] \in HttpAuthRoutes /\ pc[p] = "verify"
    /\ IF PasswordErrors(args[p].password) # <<>>
       THEN /\ Finish(p, Unauthorized("Invalid email or password"))
            /\ UNCHANGED calls
       ELSE /\ Call(p, <<"verify">>)
            /\ IF ~BcryptVerify(args[p].password, local[p].user.password_hash)
               THEN Finish(p, Unauthorized("Invalid email or password"))
               ELSE IF op[p] = "http_activate" THEN Goto(p, "execute")
               ELSE Goto(p, "issue_find_user")
    /\ UNCHANGED <<now, users, codes, op, args, local, consumed, started>>

\* activate_user: use_case.execute(user_id=auth_user.id, code=request.code);
\* ActivateUser.execute takes (public_id, code), so the call raises TypeError
HttpActivateExecute(p) ==
    /\ op[p] = "http_activate" /\ pc[p] = "execute"
    /\ Finish(p, Raise("TypeError",
                       "execute() got an unexpected keyword argument 'user_id'"))
    /\ UNCHANGED <<now, users, codes, op, args, local, calls, consumed, started>>

\* resend_activation_code: issue use case, user = await find_by_id(auth_user.id)
HttpResendFindUser(p) ==
    /\ op[p] = "http_resend" /\ pc[p] = "issue_find_user"
    /\ Call(p, <<"find_by_id", local[p].user.id>>)
    /\ IF FindById(local[p].user.id).kind = "ok"
       THEN /\ local' = [local EXCEPT ![p].activated_user = FindById(local[p].user.id).value]
            /\ Goto(p, "issue_save_code")
       ELSE /\ Finish(p, FindById(local[p].user.id))
            /\ UNCHANGED local
    /\ UNCHANGED <<now, users, codes, op, args, consumed, started>>

\* ... ActivationCode.create(user_id=user.id); save
HttpResendSaveCode(p, n) ==
    /\ op[p] = "http_resend" /\ pc[p] = "issue_save_code"
    /\ LET ac == ActivationCodeCreate(local[p].activated_user.id, n, now) IN
        /\ codes' = SaveRows(ac)
        /\ consumed' = consumed \ {CodeKey(ac)}
        /\ local' = [local EXCEPT ![p].activation_code = ac]
        /\ Call(p, <<"save", ac.user_id, ac.code>>)
    /\ Goto(p, "issue_send_email")
    /\ UNCHANGED <<now, users, op, args, started>>

\* ... send_activation_code(user.email, code); return Response(201)
HttpResendSendEmail(p) ==
    /\ op[p] = "http_resend" /\ pc[p] = "issue_send_email"
    /\ Call(p, <<"send_activation_code", local[p].activated_user.email,
                 local[p].activation_code.code>>)
    /\ Finish(p, Returns([status_code |-> 201]))
    /\ UNCHANGED <<now, users, codes, op, args, local, consumed, started>>

\* ------------------------------------------------------------------- other
\* The caller receives the outcome; the slot is free for another invocation.
Return(p) ==
    /\ pc[p] = "done"
    /\ op' = [op EXCEPT ![p] = "none"]
    /\ pc' = [pc EXCEPT ![p] = "idle"]
    /\ args' = [args EXCEPT ![p] = NoArgs]
    /\ local' = [local EXCEPT ![p] = NoLocal]
    /\ result' = [result EXCEPT ![p] = NoResult]
    /\ calls' = [calls EXCEPT ![p] = <<>>]
    /\ UNCHANGED <<now, users, codes, consumed, started>>

Tick ==
    /\ now < MaxTime
    /\ now' = now + 1
    /\ UNCHANGED <<users, codes, op, pc, args, local, result, calls, consumed, started>>

\* ================================================================== claims
Called(p, port) == \E i \in 1..Len(calls[p]) : calls[p][i][1] = port
NoMutatorCalled(p) == ~Called(p, "set_status") /\ ~Called(p, "mark_as_used")
Done(p, name) == op[p] = name /\ pc[p] = "done"
Key(p) == <<local[p].user.id, args[p].code>>
SnapshotPending(p) == local[p].activation_code.status = ActivationCodeStatus_PENDING
SnapshotUsed(p) == local[p].activation_code.status = ActivationCodeStatus_USED

\* C1: a user's stored status becomes ACTIVE only by the set_status step of an
\* ActivateUser invocation for that user whose looked-up row was PENDING and
\* unexpired when is_valid() checked it; users are never created ACTIVE.
C1_ActiveOnlyByValidActivation ==
    [][/\ \A u \in DOMAIN users' \ DOMAIN users : users'[u].status # UserStatus_ACTIVE
       /\ \A u \in DOMAIN users :
            users[u].status # UserStatus_ACTIVE /\ users'[u].status = UserStatus_ACTIVE
            => \E p \in Procs :
                /\ op[p] = "activate" /\ pc[p] = "set_status" /\ pc'[p] = "mark_as_used"
                /\ local[p].user.id = u
                /\ local[p].activation_code.user_id = u
                /\ local[p].activation_code.code = args[p].code
                /\ SnapshotPending(p)
                /\ local[p].checked_at >= 0
                /\ local[p].checked_at < local[p].activation_code.expires_at]_vars

C1_Witness == \E u \in DOMAIN users : users[u].status = UserStatus_ACTIVE

\* C2: every user is PENDING when created, and a stored status that is ACTIVE
\* is ACTIVE after every step.
C2_StatusOneWay ==
    [][/\ \A u \in DOMAIN users' \ DOMAIN users : users'[u].status = UserStatus_PENDING
       /\ \A u \in DOMAIN users :
            /\ u \in DOMAIN users'
            /\ users[u].status = UserStatus_ACTIVE => users'[u].status = UserStatus_ACTIVE]_vars

C2_Witness ==
    \E u \in DOMAIN users : \E p \in Procs :
        /\ users[u].status = UserStatus_ACTIVE
        /\ Done(p, "activate") /\ local[p].user.status = UserStatus_ACTIVE
        /\ local[p].user.id = u

\* C3: no ActivateUser invocation succeeds with a code row that another
\* invocation already succeeded with since the row was last saved.
C3_SingleUse ==
    \A p \in Procs :
        Done(p, "activate") /\ result[p].kind = "ok" => ~local[p].repeat_success

\* C4: a code row whose status is USED is USED after every step.
C4_UsedNeverPending ==
    [][\A k \in DOMAIN codes :
            codes[k].status = ActivationCodeStatus_USED
            => codes'[k].status = ActivationCodeStatus_USED]_vars

\* C5: an ActivateUser invocation whose looked-up row is PENDING and is checked
\* before its expiry ends by returning the user with status ACTIVE; at that
\* step the stored user is ACTIVE and the stored row, looked up again by the
\* same key, is USED.
CheckTime(p) == IF pc[p] = "is_valid" THEN now ELSE local[p].checked_at

C5_ActivateWithIssuedCode ==
    [][\A p \in Procs :
            /\ op[p] = "activate" /\ pc[p] \in {"is_valid", "set_status", "mark_as_used"}
            /\ pc'[p] = "done"
            /\ SnapshotPending(p)
            /\ CheckTime(p) < local[p].activation_code.expires_at
            => /\ result'[p].kind = "ok"
               /\ result'[p].value.status = UserStatus_ACTIVE
               /\ result'[p].value.id = local[p].user.id
               /\ users'[local[p].user.id].status = UserStatus_ACTIVE
               /\ codes'[Key(p)].status = ActivationCodeStatus_USED]_vars

C5_Witness ==
    \E p \in Procs :
        /\ Done(p, "activate") /\ result[p].kind = "ok"
        /\ SnapshotPending(p) /\ local[p].user.status = UserStatus_PENDING
        /\ FindByUserIdAndCode(local[p].user.id, args[p].code).kind = "ok"
        /\ FindByUserIdAndCode(local[p].user.id, args[p].code).value.status
               = ActivationCodeStatus_USED

\* C6: an ActivateUser invocation whose looked-up row is PENDING but has reached
\* its expiry when checked fails with ActivationCodeInvalid carrying the
\* expired message, having issued neither set_status nor mark_as_used.
C6_ExpiredCodeRejected ==
    \A p \in Procs :
        /\ Done(p, "activate") /\ SnapshotPending(p)
        /\ local[p].checked_at >= local[p].activation_code.expires_at
        => /\ result[p] = Raise("ActivationCodeInvalid", MsgExpired)
           /\ NoMutatorCalled(p)

C6_Witness ==
    \E p \in Procs :
        /\ Done(p, "activate") /\ SnapshotPending(p)
        /\ local[p].checked_at >= local[p].activation_code.expires_at
        /\ users[local[p].user.id].status = UserStatus_PENDING
        /\ codes[Key(p)].status = ActivationCodeStatus_PENDING

\* C7: the code lookup of an ActivateUser invocation for which the user has no
\* row with the submitted code ends the invocation with ActivationCodeNotFound;
\* the step changes no user and no code, and the invocation has issued neither
\* set_status nor mark_as_used.
C7_UnknownCodeNotFound ==
    [][\A p \in Procs :
            /\ op[p] = "activate" /\ pc[p] = "find_code" /\ pc'[p] # "find_code"
            /\ Key(p) \notin DOMAIN codes
            => /\ pc'[p] = "done"
               /\ result'[p].kind = "ActivationCodeNotFound"
               /\ users' = users /\ codes' = codes
               /\ \A i \in 1..Len(calls'[p]) :
                    calls'[p][i][1] \notin {"set_status", "mark_as_used"}]_vars

C7_Witness ==
    \E p \in Procs :
        /\ Done(p, "activate") /\ result[p].kind = "ActivationCodeNotFound"
        /\ \E k \in DOMAIN codes : k[1] = local[p].user.id
        /\ users[local[p].user.id].status = UserStatus_PENDING

\* C8: an ActivateUser invocation whose looked-up row is USED fails with
\* ActivationCodeInvalid, having issued neither set_status nor mark_as_used.
C8_UsedCodeRejected ==
    \A p \in Procs :
        Done(p, "activate") /\ SnapshotUsed(p)
        => /\ result[p].kind = "ActivationCodeInvalid"
           /\ NoMutatorCalled(p)

C8_Witness ==
    \E p \in Procs :
        /\ Done(p, "activate") /\ SnapshotUsed(p)
        /\ local[p].checked_at < local[p].activation_code.expires_at

\* C9: a step of an ActivateUser invocation for user A changes neither the
\* status nor the codes of any other user, and when A has no row with the
\* submitted digits the lookup fails with ActivationCodeNotFound even if
\* another user has a row with those digits.
C9_CodesScopedToOwner ==
    [][\A p \in Procs :
            op[p] = "activate" /\ pc'[p] # pc[p]
            => /\ \A u \in DOMAIN users :
                    u # local[p].user.id => users'[u] = users[u]
               /\ \A k \in DOMAIN codes :
                    k[1] # local[p].user.id => codes'[k] = codes[k]
               /\ (pc[p] = "find_code" /\ Key(p) \notin DOMAIN codes
                    => pc'[p] = "done" /\ result'[p].kind = "ActivationCodeNotFound")]_vars

C9_Witness ==
    \E p \in Procs :
        /\ Done(p, "activate") /\ result[p].kind = "ActivationCodeNotFound"
        /\ \E k \in DOMAIN codes :
            /\ k[1] # local[p].user.id /\ k[2] = args[p].code
            /\ codes[k].status = ActivationCodeStatus_PENDING
            /\ codes[k].expires_at > now
            /\ users[k[1]].status = UserStatus_PENDING

\* C10 (as claimed): a second ActivateUser call with a code that an earlier call
\* already succeeded with, checked before the code's expiry, succeeds and
\* returns the ACTIVE user.
SecondCall(p) ==
    /\ Done(p, "activate") /\ local[p].after_success
    /\ local[p].checked_at >= 0
    /\ local[p].checked_at < local[p].activation_code.expires_at

C10_SecondCallSucceeds ==
    \A p \in Procs :
        SecondCall(p) => result[p].kind = "ok" /\ result[p].value.status = UserStatus_ACTIVE

\* C10 (amended): the first call left the user ACTIVE and the row USED; the
\* second call's lookup resolves to that USED row and the call fails with
\* ActivationCodeInvalid carrying the already-used message, issuing neither
\* set_status nor mark_as_used; the user stays ACTIVE.
C10_SecondCallRejectedAsUsed ==
    \A p \in Procs :
        SecondCall(p)
        => /\ SnapshotUsed(p)
           /\ result[p] = Raise("ActivationCodeInvalid", MsgUsed)
           /\ NoMutatorCalled(p)
           /\ users[local[p].user.id].status = UserStatus_ACTIVE

C10_Witness == \E p \in Procs : SecondCall(p)

\* C11: an ActivateUser invocation that found its user already ACTIVE and whose
\* looked-up row is PENDING and checked before its expiry succeeds: it has
\* issued set_status(ACTIVE) and mark_as_used and returns the user ACTIVE.
AlreadyActive(p) ==
    /\ Done(p, "activate") /\ local[p].user.status = UserStatus_ACTIVE
    /\ SnapshotPending(p)
    /\ local[p].checked_at >= 0
    /\ local[p].checked_at < local[p].activation_code.expires_at

C11_ActiveUserActivatesAgain ==
    \A p \in Procs :
        AlreadyActive(p)
        => /\ result[p].kind = "ok"
           /\ result[p].value.status = UserStatus_ACTIVE
           /\ result[p].value.id = local[p].user.id
           /\ \E i \in 1..Len(calls[p]) :
                calls[p][i] = <<"set_status", local[p].user.id, UserStatus_ACTIVE>>
           /\ \E i \in 1..Len(calls[p]) :
                calls[p][i] = <<"mark_as_used", local[p].user.id>>

C11_Witness == \E p \in Procs : AlreadyActive(p) /\ result[p].kind = "ok"

\* C12: is_valid() looks at the used state first: an invocation whose looked-up
\* row had reached its expiry when checked fails with the already-used message
\* if the row is USED and with the expired message if the row is PENDING.
CheckedPastExpiry(p) ==
    /\ Done(p, "activate") /\ local[p].checked_at >= 0
    /\ local[p].checked_at >= local[p].activation_code.expires_at

C12_UsedBeforeExpired ==
    \A p \in Procs :
        CheckedPastExpiry(p)
        => /\ SnapshotUsed(p) => result[p] = Raise("ActivationCodeInvalid", MsgUsed)
           /\ SnapshotPending(p) => result[p] = Raise("ActivationCodeInvalid", MsgExpired)

C12_Witness == \E p \in Procs : CheckedPastExpiry(p) /\ SnapshotUsed(p)

\* C13: is_valid() lets an invocation through exactly when its looked-up row is
\* PENDING and the check time is strictly before expires_at; is_expired() is
\* true exactly when the check time is at or after expires_at; a PENDING row
\* checked at its expiry instant is rejected with the expired message.
IsValidEvaluated(p) == op[p] = "activate" /\ local[p].checked_at >= 0
IsValidPassed(p) ==
    \/ pc[p] \in {"set_status", "mark_as_used"}
    \/ pc[p] = "done" /\ Called(p, "set_status")

C13_ValidIffPendingAndUnexpired ==
    \A p \in Procs :
        IsValidEvaluated(p)
        => /\ IsValidPassed(p)
                <=> /\ SnapshotPending(p)
                    /\ local[p].checked_at < local[p].activation_code.expires_at
           /\ IsValid(local[p].activation_code, local[p].checked_at).kind = "ok"
                <=> IsValidPassed(p)
           /\ IsExpired(local[p].activation_code, local[p].checked_at)
                <=> local[p].checked_at >= local[p].activation_code.expires_at
           /\ (SnapshotPending(p) /\ pc[p] = "done"
                /\ local[p].checked_at = local[p].activation_code.expires_at)
                => result[p] = Raise("ActivationCodeInvalid", MsgExpired)

C13_Witness ==
    \E p \in Procs :
        /\ IsValidEvaluated(p) /\ pc[p] = "done" /\ SnapshotPending(p)
        /\ local[p].checked_at = local[p].activation_code.expires_at
        /\ result[p].kind = "ActivationCodeInvalid"

\* ---------------------------------------------------- authentication check
AuthFailed(p) == Done(p, "authenticate") /\ result[p].kind # "ok"
EmptyCredentials(p) == args[p].email = "" \/ args[p].password = EmptyStr
UnknownEmail(p) == ~EmptyCredentials(p) /\ local[p].user = NoUser
KnownEmail(p) == ~EmptyCredentials(p) /\ local[p].user # NoUser

\* C14: any two failed authentication checks, whatever made them fail (empty
\* email or password, unknown email, policy-violating password, wrong
\* password), end with the same error kind and the same message.
C14_FailuresIndistinguishable ==
    \A p, q \in Procs :
        AuthFailed(p) /\ AuthFailed(q)
        => /\ result[p].kind = result[q].kind
           /\ result[p].detail = result[q].detail

\* C15: of two failed authentication checks with non-empty credentials, one
\* for an unknown email and one for a known email (wrong or policy-violating
\* password), both end with the same outcome: 401, the same message, the same
\* headers.
C15_UnknownEmailLikeWrongPassword ==
    \A p, q \in Procs :
        AuthFailed(p) /\ UnknownEmail(p) /\ AuthFailed(q) /\ KnownEmail(q)
        => /\ result[p] = result[q]
           /\ result[p].status_code = 401
           /\ result[p].headers = <<"WWW-Authenticate", "Basic">>

C15_Witness ==
    \E p, q \in Procs :
        /\ AuthFailed(p) /\ UnknownEmail(p) /\ AuthFailed(q) /\ KnownEmail(q)
        /\ PasswordErrors(args[q].password) = <<>>
        /\ args[p].password = args[q].password

\* C16: the port calls of an authentication check are a prefix of
\* <<find_by_email, verify>>; with an empty email or password it ends without
\* any call; with non-empty credentials it looks the email up first, even when
\* the password violates the policy; it calls the hash verifier only after the
\* lookup found a user and the plaintext passed the policy; a failed lookup
\* ends it at once.
C16_AuthStepOrder ==
    \A p \in Procs :
        op[p] = "authenticate"
        => /\ Len(calls[p]) <= 2
           /\ Len(calls[p]) >= 1 => calls[p][1] = <<"find_by_email", args[p].email>>
           /\ Len(calls[p]) = 2 => calls[p][2] = <<"verify">>
           /\ EmptyCredentials(p) => pc[p] = "done" /\ calls[p] = <<>>
           /\ ~EmptyCredentials(p) => Called(p, "find_by_email")
           /\ Called(p, "verify")
                => /\ local[p].user # NoUser
                   /\ PasswordErrors(args[p].password) = <<>>
                   /\ pc[p] = "done"
           /\ UnknownEmail(p) => AuthFailed(p)
           /\ (pc[p] = "done" /\ KnownEmail(p) /\ PasswordErrors(args[p].password) # <<>>)
                => AuthFailed(p) /\ ~Called(p, "verify")

C16_Witness ==
    \E p \in Procs :
        /\ AuthFailed(p) /\ KnownEmail(p)
        /\ PasswordErrors(args[p].password) # <<>>
        /\ calls[p] = <<<<"find_by_email", args[p].email>>>>

CallsTo(p, port) == {i \in 1..Len(calls[p]) : calls[p][i][1] = port}
Registered(p) ==
    /\ op[p] \in {"register", "http_register"} /\ pc[p] = "done"
    /\ result[p].kind = "ok"

\* C18: a registration that succeeded has created exactly one user, PENDING,
\* with the registered email; saved exactly one activation code, for that
\* user; and sent exactly one email, to the registered email, carrying the
\* saved code.
C18_OneUserOneCodeOneEmail ==
    \A p \in Procs :
        Registered(p)
        => /\ Cardinality(CallsTo(p, "create")) = 1
           /\ local[p].user.status = UserStatus_PENDING
           /\ local[p].user.email = args[p].email
           /\ Cardinality({u \in UserIds : users[u].email = args[p].email}) = 1
           /\ Cardinality(CallsTo(p, "save")) = 1
           /\ Cardinality(CallsTo(p, "send_activation_code")) = 1
           /\ \A i \in CallsTo(p, "save") : calls[p][i][2] = local[p].user.id
           /\ \A i \in CallsTo(p, "send_activation_code") :
                /\ calls[p][i][2] = args[p].email
                /\ \E j \in CallsTo(p, "save") : j < i /\ calls[p][j][3] = calls[p][i][3]

\* C19: a RegisterUser invocation whose password violates the policy ends at
\* its first step with the list of violated rules, having called no port (no
\* hash, no create, no save, no email); the step changes no user and no code.
StartsRegister(p) == pc[p] = "idle" /\ op'[p] = "register"

C19_WeakPasswordTouchesNothing ==
    [][\A p \in Procs :
            StartsRegister(p) /\ PasswordErrors(args'[p].password) # <<>>
            => /\ pc'[p] = "done"
               /\ result'[p] = [kind |-> "PasswordPolicyViolation",
                                 errors |-> PasswordErrors(args'[p].password)]
               /\ calls'[p] = <<>>
               /\ users' = users /\ codes' = codes]_vars

C19_Witness ==
    \E p \in Procs :
        /\ Done(p, "register") /\ result[p].kind = "PasswordPolicyViolation"
        /\ Len(result[p].errors) > 1
        /\ ~EmailTaken(args[p].email)
        /\ calls[p] = <<>>

\* C20: a RegisterUser invocation with a policy-compliant password for an
\* email that is already registered ends at the create call with the store's
\* UserAlreadyExists error; it has called hash and create only (no save, no
\* email), and the step changes no user and no code.
C20_DuplicateEmailRejected ==
    [][\A p \in Procs :
            /\ StartsRegister(p) /\ PasswordErrors(args'[p].password) = <<>>
            /\ EmailTaken(args'[p].email)
            => /\ pc'[p] = "done"
               /\ result'[p] = Raise("UserAlreadyExists", "User with email already exists.")
               /\ calls'[p] = <<<<"hash">>, <<"create", args'[p].email>>>>
               /\ users' = users /\ codes' = codes]_vars

C20_Witness ==
    \E p \in Procs :
        /\ Done(p, "register") /\ result[p].kind = "UserAlreadyExists"
        /\ ~Called(p, "save") /\ ~Called(p, "send_activation_code")
        /\ \E k \in DOMAIN codes : users[k[1]].email = args[p].email

\* C21: when the notifier raises in RegisterUser, the invocation ends with
\* that failure; the step changes no user and no code, so the user created by
\* the invocation and the code it saved are still stored.
C21_NotifierFailureNoRollback ==
    [][\A p \in Procs :
            /\ op[p] = "register" /\ pc[p] = "send_email" /\ pc'[p] = "done"
            /\ result'[p].kind # "ok"
            => /\ result'[p] = Raise("PortFailure", "send_activation_code")
               /\ users' = users /\ codes' = codes
               /\ local[p].user.id \in DOMAIN users'
               /\ users'[local[p].user.id].email = args[p].email
               /\ local[p].user.status = UserStatus_PENDING
               /\ CodeKey(local[p].activation_code) \in DOMAIN codes'
               /\ local[p].activation_code.status = ActivationCodeStatus_PENDING]_vars

C21_Witness ==
    \E p \in Procs :
        /\ Done(p, "register") /\ result[p] = Raise("PortFailure", "send_activation_code")
        /\ users[local[p].user.id].status = UserStatus_PENDING
        /\ codes[CodeKey(local[p].activation_code)].status = ActivationCodeStatus_PENDING

\* C22: no two stored users share an email; of two RegisterUser invocations
\* with the same email that both reached the create call, at most one created
\* a user and the other ended with UserAlreadyExists.
ReachedCreate(p) == op[p] = "register" /\ Called(p, "create")
Created(p) == ReachedCreate(p) /\ local[p].user # NoUser

C22_EmailUnique ==
    /\ \A i, j \in UserIds : users[i].email = users[j].email => i = j
    /\ \A p, q \in Procs :
            /\ p # q /\ ReachedCreate(p) /\ ReachedCreate(q)
            /\ args[p].email = args[q].email
            => /\ ~(Created(p) /\ Created(q))
               /\ ~Created(p) => pc[p] = "done" /\ result[p].kind = "UserAlreadyExists"
    /\ \A p \in Procs :
            Created(p) => Cardinality({i \in UserIds : users[i].email = args[p].email}) = 1

C22_Witness ==
    \E p, q \in Procs :
        /\ p # q /\ args[p].email = args[q].email
        /\ Created(p) /\ pc[p] = "save_code"
        /\ Done(q, "register") /\ result[q].kind = "UserAlreadyExists"

\* C23: IssueActivationCode for an existing user, PENDING or ACTIVE, goes on
\* to save one code: PENDING, owned by that user, expiring one TTL after the
\* save, written under its key with every other row untouched; it then sends
\* one email, to the user's stored address, carrying the saved code, and
\* returns the looked-up user; its calls are find_by_id, save,
\* send_activation_code and nothing else; no step changes any user.
IssueStep(p) == op'[p] = "issue" /\ pc'[p] # pc[p]

C23_IssueSavesOneCodeSendsOneEmail ==
    [][\A p \in Procs :
            IssueStep(p)
            => /\ users' = users
               /\ (pc[p] = "idle" /\ args'[p].user_id \in UserIds)
                    => /\ pc'[p] = "save_code"
                       /\ local'[p].user = users[args'[p].user_id]
               /\ pc[p] = "save_code"
                    => LET ac == local'[p].activation_code IN
                        /\ ac.user_id = local[p].user.id
                        /\ ac.status = ActivationCodeStatus_PENDING
                        /\ ac.expires_at = now + DefaultExpiresInMinutes * TicksPerMinute
                        /\ DOMAIN codes' = DOMAIN codes \cup {CodeKey(ac)}
                        /\ codes'[CodeKey(ac)] = CodeRow(ac)
                        /\ \A k \in DOMAIN codes \ {CodeKey(ac)} : codes'[k] = codes[k]
               /\ (pc[p] = "send_email" /\ result'[p].kind = "ok")
                    => /\ codes' = codes
                       /\ result'[p] = Returns(local[p].user)
                       /\ result'[p].value.id = args[p].user_id
                       /\ users'[args[p].user_id].status = users[args[p].user_id].status
                       /\ calls'[p] =
                            << <<"find_by_id", args[p].user_id>>,
                               <<"save", args[p].user_id, local[p].activation_code.code>>,
                               <<"send_activation_code", users[args[p].user_id].email,
                                 local[p].activation_code.code>> >>]_vars

C23_Witness ==
    \E p \in Procs :
        /\ Done(p, "issue") /\ result[p].kind = "ok"
        /\ result[p].value.status = UserStatus_ACTIVE
        /\ users[args[p].user_id].status = UserStatus_ACTIVE
        /\ codes[CodeKey(local[p].activation_code)].status = ActivationCodeStatus_PENDING

\* C24: IssueActivationCode for a user id that no stored user has ends at the
\* lookup with UserNotFound; find_by_id is its only call (no save, no email)
\* and the step changes no user and no code.
C24_IssueUnknownUser ==
    [][\A p \in Procs :
            /\ pc[p] = "idle" /\ op'[p] = "issue"
            /\ args'[p].user_id \notin UserIds
            => /\ pc'[p] = "done"
               /\ result'[p].kind = "UserNotFound"
               /\ calls'[p] = << <<"find_by_id", args'[p].user_id>> >>
               /\ users' = users /\ codes' = codes]_vars

C24_Witness ==
    \E p \in Procs :
        /\ Done(p, "issue") /\ result[p].kind = "UserNotFound"
        /\ args[p].user_id \notin UserIds
        /\ Len(users) >= 1 /\ DOMAIN codes # {}

\* C25 (as claimed): the save step of IssueActivationCode for a user leaves
\* every row of that user that was PENDING and unexpired exactly as it was,
\* status and expiry.
IssueSaves(p) == op[p] = "issue" /\ pc[p] = "save_code" /\ pc'[p] = "send_email"
PriorPending(p) ==
    {k \in DOMAIN codes :
        /\ k[1] = local[p].user.id
        /\ codes[k].status = ActivationCodeStatus_PENDING
        /\ codes[k].expires_at > now}

MarksAsUsed(p) ==
    /\ op[p] = "activate" /\ pc[p] = "mark_as_used" /\ pc'[p] = "done"
    /\ result'[p].kind = "ok"

C26_MarkAsUsedScope ==
    [][\A p \in Procs :
            MarksAsUsed(p)
            => /\ DOMAIN codes' = DOMAIN codes
               /\ \A k \in DOMAIN codes :
                    IF k[1] = local[p].user.id /\ codes[k].status = ActivationCodeStatus_PENDING
                    THEN codes'[k] = [expires_at |-> codes[k].expires_at,
                                      status |-> ActivationCodeStatus_USED]
                    ELSE codes'[k] = codes[k]]_vars

C26_Witness ==
    \E p \in Procs :
        /\ Done(p, "activate") /\ result[p].kind = "ok"
        /\ codes[Key(p)].status = ActivationCodeStatus_USED
        /\ \E k \in DOMAIN codes :
            k[1] # local[p].user.id /\ codes[k].status = ActivationCodeStatus_PENDING

\* C27: set_status(id, ACTIVE) called for a stored user succeeds and returns
\* that user's row with status ACTIVE, changing nothing but that status; when
\* the user was already ACTIVE the call changes nothing at all, so a second
\* application leaves the state the first one left.  For an id no user has it
\* ends with UserNotFound and changes nothing.  The set_status step of
\* ActivateUser on an already ACTIVE user likewise changes nothing.
SetsStatus(p) == pc[p] = "idle" /\ op'[p] = "set_status"

C27_SetStatusIdempotent ==
    [][/\ \A p \in Procs :
            SetsStatus(p)
            => LET id == args'[p].user_id
                   st == args'[p].status IN
               /\ pc'[p] = "done" /\ codes' = codes
               /\ id \in UserIds
                    => /\ result'[p] = Returns([users[id] EXCEPT !.status = st])
                       /\ users' = [users EXCEPT ![id].status = st]
                       /\ users[id].status = st => users' = users
               /\ id \notin UserIds
                    => /\ result'[p].kind = "UserNotFound"
                       /\ users' = users
       /\ \A p \in Procs :
            (/\ op[p] = "activate" /\ pc[p] = "set_status" /\ pc'[p] = "mark_as_used"
             /\ users[local[p].user.id].status = UserStatus_ACTIVE)
            => /\ users' = users
               /\ local'[p].activated_user = users[local[p].user.id]]_vars

C27_Witness ==
    \E p, q \in Procs :
        /\ p # q /\ Done(p, "set_status") /\ Done(q, "set_status")
        /\ args[p].user_id = args[q].user_id
        /\ result[p].kind = "ok" /\ result[q] = result[p]
        /\ result[p].value.status = UserStatus_ACTIVE
        /\ users[args[p].user_id] = result[p].value

\* C28: the port calls of an ActivateUser invocation are a prefix of
\* find_by_public_id, find_by_user_id_and_code, set_status, mark_as_used; when
\* mark_as_used is about to be issued or has been issued, set_status has
\* returned the ACTIVE row and the stored user is ACTIVE; an invocation whose
\* set_status failed has not issued mark_as_used.
ActivateCallOrder ==
    <<"find_by_public_id", "find_by_user_id_and_code", "set_status", "mark_as_used">>

C28_ActivateCallOrder ==
    \A p \in Procs :
        op[p] = "activate"
        => /\ Len(calls[p]) <= Len(ActivateCallOrder)
           /\ \A i \in 1..Len(calls[p]) : calls[p][i][1] = ActivateCallOrder[i]
           /\ (pc[p] = "mark_as_used" \/ Called(p, "mark_as_used"))
                => /\ Called(p, "set_status")
                   /\ local[p].activated_user.id = local[p].user.id
                   /\ local[p].activated_user.status = UserStatus_ACTIVE
                   /\ users[local[p].user.id].status = UserStatus_ACTIVE
           /\ (pc[p] = "done" /\ result[p] = Raise("PortFailure", "set_status"))
                => ~Called(p, "mark_as_used")

C28_Witness ==
    \E p \in Procs :
        /\ Done(p, "activate") /\ result[p] = Raise("PortFailure", "set_status")
        /\ Len(calls[p]) = 3
        /\ codes[Key(p)].status = ActivationCodeStatus_PENDING

\* C29: when mark_as_used raises in ActivateUser, the invocation ends with
\* that failure; the step changes no user and no code, so the user stays
\* ACTIVE as set_status left it and the submitted code keeps the status it
\* had.
MarkAsUsedFailed(p) ==
    /\ op[p] = "activate" /\ pc[p] = "mark_as_used" /\ pc'[p] = "done"
    /\ result'[p].kind # "ok"

C29_MarkAsUsedFailureKeepsActive ==
    [][\A p \in Procs :
            MarkAsUsedFailed(p)
            => /\ result'[p] = Raise("PortFailure", "mark_as_used")
               /\ users' = users /\ codes' = codes
               /\ users'[local[p].user.id].status = UserStatus_ACTIVE
               /\ codes'[Key(p)] = codes[Key(p)]]_vars

C29_Witness ==
    \E p \in Procs :
        /\ Done(p, "activate") /\ result[p] = Raise("PortFailure", "mark_as_used")
        /\ users[local[p].user.id].status = UserStatus_ACTIVE
        /\ codes[Key(p)].status = ActivationCodeStatus_PENDING

\* C30: an ActivateUser invocation that ended with ActivationCodeInvalid ended
\* with exactly what is_valid() raised for its looked-up row at its check
\* time: the already-used message for a USED row, the expired message for a
\* PENDING one, never the default message of the use case's own raise.
RejectedAsInvalid(p) == Done(p, "activate") /\ result[p].kind = "ActivationCodeInvalid"

C30_EntityErrorUnmodified ==
    \A p \in Procs :
        RejectedAsInvalid(p)
        => /\ result[p] = IsValid(local[p].activation_code, local[p].checked_at)
           /\ result[p].message # MsgInvalidDefault
           /\ SnapshotUsed(p) => result[p].message = MsgUsed
           /\ SnapshotPending(p) => result[p].message = MsgExpired

C30_Witness ==
    \E p \in Procs :
        /\ RejectedAsInvalid(p)
        /\ result[p].message \in {MsgUsed, MsgExpired}
        /\ IsValid(local[p].activation_code, local[p].checked_at).kind # "ok"

\* C31: every stored activation code has a code of exactly 4 digits; hence a
\* construction from a string that validate_code_format rejects (a non-digit
\* among 4 characters, or another length) is rejected and nothing is saved.
C31_CodesAreFourDigits ==
    /\ \A k \in DOMAIN codes : ValidateCodeFormat(k[2]).kind = "ok"
    /\ \A p \in Procs :
            Done(p, "save") /\ ValidateCodeFormat(args[p].code).kind # "ok"
            => result[p].kind # "ok" /\ ~Called(p, "save")

\* C32: Password validation evaluates all six rules without short-circuiting:
\* for every plaintext the reported violations are exactly the rules the
\* plaintext violates, one message per rule, and construction succeeds, holding
\* the plaintext unchanged, if and only if no rule is violated.
RuleViolated(value) ==
    [r \in 1..6 |->
        CASE r = 1 -> Len(value) < MIN_LENGTH
          [] r = 2 -> Len(value) > MAX_LENGTH
          [] r = 3 -> \A i \in 1..Len(value) : value[i] \notin UpperChars
          [] r = 4 -> \A i \in 1..Len(value) : value[i] \notin LowerChars
          [] r = 5 -> \A i \in 1..Len(value) : value[i] \notin DigitChars
          [] r = 6 -> \A i \in 1..Len(value) : value[i] \notin SpecialChars]
RuleMessage ==
    <<"Password must be at least 8 characters long",
      "Password must be at most 128 characters long",
      "Password must contain at least one uppercase letter",
      "Password must contain at least one lowercase letter",
      "Password must contain at least one digit",
      "Password must contain at least one special character">>
ViolatedRules(value) == {r \in 1..6 : RuleViolated(value)[r]}
C32_AllViolationsReported ==
    \A p \in Procs :
        Done(p, "password")
        => IF ViolatedRules(args[p].password) = {}
           THEN result[p].kind = "ok" /\ result[p].value.value = args[p].password
           ELSE /\ result[p].kind = "ExceptionGroup"
                /\ Len(result[p].errors) = Cardinality(ViolatedRules(args[p].password))
                /\ {result[p].errors[i] : i \in 1..Len(result[p].errors)}
                       = {RuleMessage[r] : r \in ViolatedRules(args[p].password)}
C32_W_SeveralViolations ==
    \E p \in Procs :
        /\ Done(p, "password")
        /\ result[p].kind = "ExceptionGroup"
        /\ Cardinality(ViolatedRules(args[p].password)) >= 4
        /\ Len(result[p].errors) >= 4

\* C33: every string conversion of a PasswordHash, str() and repr() alike,
\* redacts the hash: the text never contains the stored hash value.
C33_ConversionsRedactHash ==
    \A p \in Procs :
        Done(p, "str") \/ Done(p, "repr")
        => users[args[p].user_id].password_hash \notin result[p].value.embeds

\* C34: ActivateUser for a public id that resolves to no user fails with
\* UserNotFound right at the lookup: find_by_public_id is its only call (no
\* find_by_user_id_and_code, set_status or mark_as_used) and no user or code
\* row changes.
StartsActivate(p) == pc[p] = "idle" /\ op'[p] = "activate"
ResolvesToNoUser(public_id) ==
    \A i \in UserIds : users[i].public_id.uuid_v7 # public_id.uuid_v7
C34_UnknownUserFailsFirst ==
    [][\A p \in Procs :
            StartsActivate(p) /\ ResolvesToNoUser(args'[p].public_id)
            => /\ pc'[p] = "done"
               /\ result'[p].kind = "UserNotFound"
               /\ calls'[p] = <<<<"find_by_public_id", args'[p].public_id.uuid_v7>>>>
               /\ users' = users /\ codes' = codes /\ consumed' = consumed]_vars
C34_W_UnknownUser ==
    \E p \in Procs :
        /\ Done(p, "activate") /\ result[p].kind = "UserNotFound"
        /\ ResolvesToNoUser(args[p].public_id)
        /\ Len(users) > 0
        /\ ~Called(p, "find_by_user_id_and_code")

\* C35: when the only invocations so far are the registration of a user and
\* two ActivateUser invocations for that user with the same code, each checked
\* before the code's expiry, then once both have finished the user is ACTIVE and
\* the code USED, whatever the interleaving of their store calls; each
\* invocation returned the ACTIVE user or failed with ActivationCodeInvalid.
TwoActivationsOnly(p, q) ==
    /\ p # q /\ started = 3
    /\ Done(p, "activate") /\ Done(q, "activate")
    /\ local[p].user.id = local[q].user.id /\ local[p].user.id \in UserIds
    /\ args[p].code = args[q].code
    /\ IsValidEvaluated(p) /\ local[p].checked_at < local[p].activation_code.expires_at
    /\ IsValidEvaluated(q) /\ local[q].checked_at < local[q].activation_code.expires_at
ReturnedActiveUser(p) ==
    /\ result[p].kind = "ok"
    /\ result[p].value.id = local[p].user.id
    /\ result[p].value.status = UserStatus_ACTIVE
C35_ConcurrentActivationsConverge ==
    \A p, q \in Procs :
        TwoActivationsOnly(p, q)
        => /\ users[local[p].user.id].status = UserStatus_ACTIVE
           /\ codes[Key(p)].status = ActivationCodeStatus_USED
           /\ ReturnedActiveUser(p) \/ result[p].kind = "ActivationCodeInvalid"
           /\ ReturnedActiveUser(q) \/ result[q].kind = "ActivationCodeInvalid"
C35_W_BothPassedTheCheck ==
    \E p, q \in Procs :
        /\ TwoActivationsOnly(p, q)
        /\ ReturnedActiveUser(p) /\ ReturnedActiveUser(q)

\* C36: at the instant an ActivateUser invocation succeeds for a user, no code
\* of that user is PENDING: every code of the user that was pending, the
\* unexpired ones other than the submitted code included, is now USED.  (The
\* final step is one UPDATE, so this holds whatever else is in flight.)
C36_NoPendingCodeAfterSuccess ==
    [][\A p \in Procs :
            MarksAsUsed(p)
            => \A k \in DOMAIN codes' :
                k[1] = local[p].user.id
                => /\ codes'[k].status = ActivationCodeStatus_USED
                   /\ codes[k].status = ActivationCodeStatus_PENDING
                        => codes'[k].expires_at = codes[k].expires_at]_vars
C36_W_OtherUnexpiredCodeRetired ==
    \E p \in Procs :
        /\ Done(p, "activate") /\ result[p].kind = "ok"
        /\ \A q \in Procs \ {p} : pc[q] = "idle"
        /\ \E k \in DOMAIN codes :
            /\ k[1] = local[p].user.id /\ k # Key(p)
            /\ codes[k].status = ActivationCodeStatus_USED
            /\ codes[k].expires_at > now
        /\ \A k \in DOMAIN codes :
            k[1] = local[p].user.id => codes[k].status = ActivationCodeStatus_USED

\* C37: while codes are created only by RegisterUser and IssueActivationCode,
\* every activation-code row with status USED belongs to a user whose stored
\* status is ACTIVE, in every reachable state (an ACTIVE user may still own a
\* PENDING code).
C37_UsedCodeImpliesActiveUser ==
    \A k \in DOMAIN codes :
        codes[k].status = ActivationCodeStatus_USED
        => k[1] \in UserIds /\ users[k[1]].status = UserStatus_ACTIVE
C37_W_UsedAndReissued ==
    \E k, j \in DOMAIN codes :
        /\ k[1] = j[1]
        /\ codes[k].status = ActivationCodeStatus_USED
        /\ codes[j].status = ActivationCodeStatus_PENDING
        /\ users[k[1]].status = UserStatus_ACTIVE

\* C38: through the HTTP API, a step of an activation or resend-code request
\* changes a user's status, writes a code row, or sends a code only for the user
\* whose email and password the request carries: never for another user, and
\* never for a request whose credentials do not verify.
HttpStep(p) == op'[p] \in HttpAuthRoutes /\ pc'[p] # pc[p]
IsCaller(p, i) ==
    /\ i \in UserIds
    /\ users[i].email = args'[p].email
    /\ BcryptVerify(args'[p].password, users[i].password_hash)
C38_OnlyTheAuthenticatedCaller ==
    [][\A p \in Procs :
            HttpStep(p)
            => /\ \A i \in UserIds : users'[i] # users[i] => IsCaller(p, i)
               /\ Len(users') = Len(users)
               /\ \A k \in DOMAIN codes' :
                    (k \notin DOMAIN codes \/ codes'[k] # codes[k]) => IsCaller(p, k[1])
               /\ DOMAIN codes \subseteq DOMAIN codes'
               /\ \A i \in 1..Len(calls'[p]) :
                    calls'[p][i][1] = "send_activation_code"
                    => \E u \in UserIds : IsCaller(p, u) /\ users[u].email = calls'[p][i][2]]_vars
C38_W_ResendForCallerOnly ==
    \E p \in Procs :
        /\ Done(p, "http_resend") /\ result[p].kind = "ok"
        /\ Len(users) >= 2
        /\ \E k \in DOMAIN codes : k = CodeKey(local[p].activation_code)
        /\ users[local[p].user.id].email = args[p].email

\* C39: save is an upsert keyed by (user_id, code): when the key already has a
\* row, that row's expires_at and status become the saved values and the number
\* of rows is unchanged; otherwise exactly one row is added; rows with other
\* keys never change.
SavesRow(p) ==
    /\ Len(calls'[p]) = Len(calls[p]) + 1
    /\ calls'[p][Len(calls'[p])][1] = "save"
    /\ result'[p].kind # "ForeignKeyViolation"
C39_SaveIsUpsert ==
    [][\A p \in Procs :
            SavesRow(p)
            => LET ac == local'[p].activation_code
                   k == CodeKey(ac) IN
                /\ codes'[k] = [expires_at |-> ac.expires_at, status |-> ac.status]
                /\ k \in DOMAIN codes
                    => /\ DOMAIN codes' = DOMAIN codes
                       /\ Cardinality(DOMAIN codes') = Cardinality(DOMAIN codes)
                /\ k \notin DOMAIN codes
                    => /\ DOMAIN codes' = DOMAIN codes \cup {k}
                       /\ Cardinality(DOMAIN codes') = Cardinality(DOMAIN codes) + 1
                /\ \A j \in DOMAIN codes \ {k} : codes'[j] = codes[j]]_vars
C39_W_ExistingRowReplaced ==
    \E p, q \in Procs :
        /\ Done(p, "save") /\ result[p].kind = "ok"
        /\ op[q] = "register" /\ pc[q] \in {"send_email", "done"}
        /\ CodeKey(local[q].activation_code) = CodeKey(local[p].activation_code)
        /\ local[q].activation_code.expires_at # args[p].expires_at
        /\ codes[CodeKey(local[p].activation_code)]
              = [expires_at |-> args[p].expires_at, status |-> args[p].status]
        /\ args[p].status = ActivationCodeStatus_USED
        /\ Cardinality(DOMAIN codes) = 1

\* C40: each use case is a fixed finite sequence of port calls, so when every
\* started invocation keeps being scheduled and every port answers, each
\* invocation of RegisterUser, IssueActivationCode and ActivateUser eventually
\* completes with a result or a typed error, and an ActivateUser invocation
\* whose validity check passed eventually leaves its user ACTIVE.
UseCases == {"register", "issue", "activate"}
InFlight(p) == op[p] \in UseCases /\ pc[p] \notin {"idle", "done"}
Completed(p) == op[p] \in UseCases /\ pc[p] = "done" /\ result[p].kind # "none"
PassedCheckFor(p, i) ==
    op[p] = "activate" /\ pc[p] = "set_status" /\ local[p].user.id = i
C40_EveryInvocationCompletes ==
    /\ \A p \in Procs : InFlight(p) ~> Completed(p)
    /\ \A p \in Procs, i \in UserIdInputs :
            PassedCheckFor(p, i) ~> (i \in UserIds /\ users[i].status = UserStatus_ACTIVE)
C40_W_AllThreeCompleted ==
    \E p, q \in Procs :
        /\ Completed(p) /\ op[p] = "activate" /\ result[p].kind = "ok"
        /\ Called(p, "mark_as_used")
        /\ Completed(q) /\ op[q] = "issue" /\ result[q].kind = "ok"
        /\ users[local[p].user.id].status = UserStatus_ACTIVE

Next ==
    \/ \E p \in Procs, email \in Emails, password \in RegisterPasswords :
          RegisterCreate(p, email, password)
    \/ \E p \in Procs, n \in CodeNumbers : RegisterSaveCode(p, n)
    \/ \E p \in Procs : RegisterSendEmail(p)
    \/ \E p \in Procs, user_id \in UserIdInputs : IssueFindUser(p, user_id)
    \/ \E p \in Procs, n \in CodeNumbers : IssueSaveCode(p, n)
    \/ \E p \in Procs : IssueSendEmail(p)
    \/ \E p \in Procs, public_id \in PublicIdInputs, code \in CodeInputs :
          ActivateFindUser(p, public_id, code)
    \/ \E p \in Procs : ActivateFindCode(p)
    \/ \E p \in Procs : ActivateIsValid(p)
    \/ \E p \in Procs : ActivateSetStatus(p)
    \/ \E p \in Procs : ActivateMarkAsUsed(p)
    \/ \E p \in Procs, email \in AuthEmails, password \in AuthPasswords :
          AuthFindUser(p, email, password)
    \/ \E p \in Procs : AuthVerify(p)
    \/ \E p \in Procs : Return(p)
    \/ Tick

Spec == Init /\ [][Next]_vars

\* The use cases together with the POST /users handler.
NextHttp ==
    \/ Next
    \/ \E p \in Procs, email \in Emails, password \in RegisterPasswords :
          HttpRegisterCreate(p, email, password)
    \/ \E p \in Procs, n \in CodeNumbers : HttpRegisterSaveCode(p, n)
    \/ \E p \in Procs : HttpRegisterSendEmail(p)
    \/ \E p \in Procs : HttpIssueFindUser(p)
    \/ \E p \in Procs, n \in CodeNumbers : HttpIssueSaveCode(p, n)
    \/ \E p \in Procs : HttpIssueSendEmail(p)

SpecHttp == Init /\ [][NextHttp]_vars

\* The use cases with ports that may raise.
NextFail ==
    \/ Next
    \/ \E p \in Procs : RegisterSendEmailFails(p)
    \/ \E p \in Procs : IssueSendEmailFails(p)
    \/ \E p \in Procs : ActivateSetStatusFails(p)
    \/ \E p \in Procs : ActivateMarkAsUsedFails(p)

SpecFail == Init /\ [][NextFail]_vars

\* The use cases together with direct calls of the user store.
NextRepo ==
    \/ Next
    \/ \E p \in Procs, user_id \in UserIdInputs : RepoSetStatus(p, user_id, UserStatus_ACTIVE)

SpecRepo == Init /\ [][NextRepo]_vars

\* The use cases together with direct calls of the activation-code store.
NextCodes ==
    \/ Next
    \/ \E p \in Procs, user_id \in UserIdInputs, code \in CodeStringInputs,
          expires_at \in ExpiresAtInputs,
          status \in {ActivationCodeStatus_PENDING, ActivationCodeStatus_USED} :
          RepoSave(p, user_id, code, expires_at, status)

SpecCodes == Init /\ [][NextCodes]_vars

\* The use cases, plus the value objects constructed and converted directly.
NextValues ==
    \/ Next
    \/ \E p \in Procs, value \in PasswordInputs : PasswordConstruct(p, value)
    \/ \E p \in Procs, user_id \in UserIdInputs : StrPasswordHash(p, user_id)
    \/ \E p \in Procs, user_id \in UserIdInputs : ReprPasswordHash(p, user_id)
SpecValues == Init /\ [][NextValues]_vars

\* The use cases, plus the authenticated routes of the HTTP API.
NextApi ==
    \/ Next
    \/ \E p \in Procs, route \in HttpAuthRoutes, email \in AuthEmails,
          password \in AuthPasswords, code \in CodeInputs \cup {<<>>} :
          HttpAuthFindUser(p, route, email, password, code)
    \/ \E p \in Procs : HttpAuthVerify(p)
    \/ \E p \in Procs : HttpActivateExecute(p)
    \/ \E p \in Procs : HttpResendFindUser(p)
    \/ \E p \in Procs, n \in CodeNumbers : HttpResendSaveCode(p, n)
    \/ \E p \in Procs : HttpResendSendEmail(p)
SpecApi == Init /\ [][NextApi]_vars

\* The event loop resumes every coroutine whose awaited port call has answered,
\* and every port call answers: each step after the first of an invocation is
\* weakly fair.
Resume(p) ==
    \/ \E n \in CodeNumbers : RegisterSaveCode(p, n)
    \/ RegisterSendEmail(p)
    \/ \E n \in CodeNumbers : IssueSaveCode(p, n)
    \/ IssueSendEmail(p)
    \/ ActivateFindCode(p)
    \/ ActivateIsValid(p)
    \/ ActivateSetStatus(p)
    \/ ActivateMarkAsUsed(p)
    \/ AuthVerify(p)
SpecLive == Init /\ [][Next]_vars /\ \A p \in Procs : WF_vars(Resume(p))
====
